---- MODULE Spec2Model ----
(***************************************************************************)
(* video-compressor.py: the size-targeted compressor (compress_video) and  *)
(* the audio extractor (extract_audio), each an orchestration of external  *)
(* child processes (ffprobe, ffmpeg) over the filesystem.                  *)
(*                                                                         *)
(* Paths and the prober's stdout are sequences of one-character strings,   *)
(* so that os.path.splitext and float(str.strip()) are computed as the     *)
(* library computes them.  Real numbers are exact rationals [n, d].        *)
(***************************************************************************)
EXTENDS Integers, Sequences, FiniteSets, TLC

----------------------------------------------------------------------------
(* Paths *)

P_in      == <<"i", "n", ".", "m", "o", "v">>
P_gone    == <<"g", "o", "n", "e", ".", "m", "o", "v">>
P_clip    == <<"c", "l", "i", "p">>
P_clipmp3 == <<"c", "l", "i", "p", ".", "m", "p", "3">>
P_clipdot == <<"c", "l", "i", "p", ".">>
P_hidden  == <<".", "c", "l", "i", "p">>
P_dotdir  == <<"d", ".", "x", "/", "c", "l", "i", "p">>
P_outmp4  == <<"o", "u", "t", ".", "m", "p", "4">>

\* f"{output_path}.mp3"
Mp3Suffix == <<".", "m", "p", "3">>

\* str.rfind(c), 1-based; 0 when c does not occur
RFind(p, c) ==
    IF \E i \in 1..Len(p) : p[i] = c
    THEN CHOOSE i \in 1..Len(p) : p[i] = c /\ \A j \in (i+1)..Len(p) : p[j] # c
    ELSE 0

\* os.path.splitext(p) = <<root, ext>>: the extension starts at the last dot
\* of the last path component, unless only dots precede it in that component
SplitExt(p) ==
    LET sepIndex == RFind(p, "/")
        dotIndex == RFind(p, ".")
    IN  IF dotIndex > sepIndex /\ \E k \in (sepIndex+1)..(dotIndex-1) : p[k] # "."
        THEN <<SubSeq(p, 1, dotIndex-1), SubSeq(p, dotIndex, Len(p))>>
        ELSE <<p, <<>>>>

\* the output path is passed on as given
ResolveAudioPath_asgiven(output_path) == output_path

\* extract_audio: "if not os.path.splitext(output_path)[1]: output_path = f'{output_path}.mp3'"
ResolveAudioPath(output_path) ==
    IF SplitExt(output_path)[2] = <<>> THEN output_path \o Mp3Suffix ELSE output_path

----------------------------------------------------------------------------
(* float(probe.stdout.strip()) *)

Whitespace == {" ", "\n"}
Digits == {"0", "1", "2", "3", "4", "5", "6", "7", "8", "9"}

DigitVal(c) ==
    CASE c = "0" -> 0 [] c = "1" -> 1 [] c = "2" -> 2 [] c = "3" -> 3
      [] c = "4" -> 4 [] c = "5" -> 5 [] c = "6" -> 6 [] c = "7" -> 7
      [] c = "8" -> 8 [] c = "9" -> 9

SetMin(S) == CHOOSE x \in S : \A y \in S : x <= y
SetMax(S) == CHOOSE x \in S : \A y \in S : y <= x

\* str.strip()
Strip(s) ==
    LET keep == {i \in 1..Len(s) : s[i] \notin Whitespace}
    IN  IF keep = {} THEN <<>> ELSE SubSeq(s, SetMin(keep), SetMax(keep))

\* float() matches nan / inf / infinity without regard to case
Lower(c) ==
    CASE c = "N" -> "n" [] c = "A" -> "a" [] c = "I" -> "i" [] c = "F" -> "f"
      [] OTHER -> c

RECURSIVE DigitsValue(_)
DigitsValue(ds) ==
    IF ds = <<>> THEN 0
    ELSE 10 * DigitsValue(SubSeq(ds, 1, Len(ds)-1)) + DigitVal(ds[Len(ds)])

RECURSIVE Pow10(_)
Pow10(k) == IF k = 0 THEN 1 ELSE 10 * Pow10(k-1)

Abs(x) == IF x < 0 THEN -x ELSE x

RECURSIVE GCD(_, _)
GCD(a, b) == IF b = 0 THEN a ELSE GCD(b, a % b)

\* the rational n/d in lowest terms, d > 0
Rat(n, d) ==
    LET g == GCD(Abs(n), Abs(d))
        s == IF d < 0 THEN -1 ELSE 1
    IN  [n |-> s * (n \div g), d |-> s * (d \div g)]

\* float(text.strip()): [kind |-> "num", n, d] for a decimal literal,
\* "nan" / "inf" for the special values, "ValueError" when float() raises
ParseFloat(text) ==
    LET t     == Strip(text)
        sgn   == t # <<>> /\ t[1] \in {"+", "-"}
        neg   == sgn /\ t[1] = "-"
        body  == IF sgn THEN Tail(t) ELSE t
        low   == [i \in 1..Len(body) |-> Lower(body[i])]
        dots  == {i \in 1..Len(body) : body[i] = "."}
        digs  == SelectSeq(body, LAMBDA c : c \in Digits)
        frac  == IF dots = {} THEN 0 ELSE Len(body) - SetMin(dots)
        mag   == DigitsValue(digs)
    IN  IF low = <<"n", "a", "n">> THEN [kind |-> "nan", n |-> 0, d |-> 1]
        ELSE IF low \in {<<"i", "n", "f">>, <<"i", "n", "f", "i", "n", "i", "t", "y">>}
        THEN [kind |-> "inf", n |-> IF neg THEN -1 ELSE 1, d |-> 1]
        ELSE IF /\ \A i \in 1..Len(body) : body[i] \in Digits \cup {"."}
                /\ Cardinality(dots) <= 1
                /\ digs # <<>>
        THEN LET r == Rat(IF neg THEN -mag ELSE mag, Pow10(frac))
             IN  [kind |-> "num", n |-> r.n, d |-> r.d]
        ELSE [kind |-> "ValueError", n |-> 0, d |-> 1]

----------------------------------------------------------------------------
(* Bounds and the inputs the calls are drawn from *)

\* fresh calls made in one run (each may be followed by one repeat of itself)
MaxCalls == 2

InputPaths  == {P_in, P_gone, P_clipmp3}
OutputPaths == {P_clip, P_clipmp3, P_clipdot, P_hidden, P_dotdir, P_outmp4}
AllPaths    == InputPaths \cup OutputPaths \cup {ResolveAudioPath(p) : p \in OutputPaths}

\* target_size_mb
TargetSizes == {1, 10}
\* audio_bitrate of extract_audio (192 is the default)
AudioBitrates == {192, 64}

\* what ffprobe may print
ProbeTexts ==
    { <<"1", "2", "0", ".", "0", "0", "0", "0", "0", "0", "\n">>,
      <<"6", "0", "0", "\n">>,
      <<"6", "3", ".", "9", "\n">>,
      <<"6", "4">>,
      <<>>,
      <<"\n">>,
      <<"N", "/", "A", "\n">>,
      <<"0", ".", "0", "\n">>,
      <<"-", "5", "\n">>,
      <<"n", "a", "n">>,
      <<"i", "n", "f">> }

\* a file is absent, a zero-byte regular file, or a regular file with data
Contents == {"absent", "empty", "data"}

\* os.path.isfile
IsFile(f, p) == f[p] # "absent"

----------------------------------------------------------------------------
(* The external collaborators *)

NoProbe == [ran |-> FALSE, spawned |-> FALSE, rc |-> 0, out |-> <<>>]

\* subprocess.run(["ffprobe", ...]): the process cannot be started (run raises
\* OSError), or it exits with a code and the captured stdout
ProbeBehaviours ==
    {[ran |-> TRUE, spawned |-> FALSE, rc |-> 1, out |-> <<>>]}
      \cup {[ran |-> TRUE, spawned |-> TRUE, rc |-> 1, out |-> t] : t \in {<<>>, <<"6", "4">>}}
      \cup {[ran |-> TRUE, spawned |-> TRUE, rc |-> 0, out |-> t] : t \in ProbeTexts}

NoBehaviour == [ran |-> FALSE, spawned |-> FALSE, rc |-> 0, write |-> "none"]

\* subprocess.run(["ffmpeg", ...]): the process cannot be started, or it exits
\* with a code after leaving the output path alone, leaving a zero-byte file
\* there, or writing data there
EncoderBehaviours ==
    {[ran |-> TRUE, spawned |-> FALSE, rc |-> 1, write |-> "none"]}
      \cup {[ran |-> TRUE, spawned |-> TRUE, rc |-> r, write |-> w] :
                r \in {0, 1}, w \in {"none", "empty", "data"}}

\* the ffmpeg call without "-y"
OverwriteFlag_absent == FALSE

\* "-y": overwrite the output file if it exists
OverwriteFlag == TRUE

\* what ffmpeg does with argv on filesystem f when it behaves as b: without -y
\* it refuses an existing output file (exit 1, nothing written)
EncoderRun(argv, b, f) ==
    IF ~argv.overwrite /\ IsFile(f, argv.output)
    THEN [rc |-> 1, fs |-> f]
    ELSE [rc |-> b.rc,
          fs |-> IF b.write = "none" THEN f ELSE [f EXCEPT ![argv.output] = b.write]]

NoArgv == [input |-> <<>>, vn |-> FALSE, vcodec |-> "", bv |-> 0, acodec |-> "",
           ba |-> 0, faststart |-> FALSE, overwrite |-> FALSE, output |-> <<>>]
NoEnc  == [argv |-> NoArgv, beh |-> NoBehaviour, rc |-> 0]

----------------------------------------------------------------------------
(* The bitrate budget of compress_video *)

\* target_size_bits = target_size_mb * 8 * 1024 * 1024
TargetBits(target_size_mb) == target_size_mb * 8 * 1024 * 1024

\* audio_bitrate = 128 * 1024
AudioBitrate == 128 * 1024

\* video_bitrate = target_size_bits / duration - audio_bitrate, duration = dur.n / dur.d # 0
VideoBitrate(target_size_mb, dur) ==
    Rat(TargetBits(target_size_mb) * dur.d - AudioBitrate * dur.n, dur.n)

\* int(x / 1000) for the rational x: truncation towards zero
IntKbps(x) ==
    LET q == Abs(x.n) \div (1000 * x.d)
    IN  IF x.n < 0 THEN -q ELSE q

\* int(audio_bitrate / 1000)
AudioKbps == AudioBitrate \div 1000

----------------------------------------------------------------------------
(* State *)

VARIABLES
    fs,              \* the filesystem: path -> Contents
    fs0,             \* the filesystem as the current call found it
    pc,              \* "idle", "probe", "budget", "encode", "verify", "done"
    op,              \* "none", "compress", "extract": the function being run
    input_path,      \* argument
    arg_output,      \* argument output_path as the caller gave it
    output_path,     \* local output_path (extract_audio reassigns it)
    target_size_mb,  \* argument of compress_video
    audio_bitrate,   \* argument of extract_audio, kbps
    probe,           \* what subprocess.run(["ffprobe", ...]) did
    video_bitrate,   \* local of compress_video, a rational
    enc,             \* the ffmpeg invocation: argv, behaviour, exit code
    result,          \* "none", "True", "False", "raised"
    msg,             \* the error printed, or the exception that escaped
    spawned,         \* child processes started by this call, in order
    calls,           \* fresh calls made so far
    first,           \* the call this one repeats: its result and what it left
    cli,             \* main(): its position, the parsed options, the exit status
    batch,           \* the page's startConversion() and the /api/convert handler
    brw              \* the /api/browse handler: the directory and the response

vars == <<fs, fs0, pc, op, input_path, arg_output, output_path, target_size_mb,
          audio_bitrate, probe, video_bitrate, enc, result, msg, spawned,
          calls, first, cli, batch, brw>>

\* the variables of compress_video, extract_audio and their direct callers
core == <<fs, fs0, pc, op, input_path, arg_output, output_path, target_size_mb,
          audio_bitrate, probe, video_bitrate, enc, result, msg, spawned,
          calls, first>>

\* main() has not parsed its arguments
NoCli == [pc |-> "start", audio_only |-> FALSE, size |-> 0, audio_bitrate |-> 0,
          status |-> 0]

\* the page with nothing selected
NoBatch == [pc |-> "idle", selectedFiles |-> <<>>, chosen |-> <<>>, i |-> 0,
            progress |-> {}, requests |-> <<>>, output_file |-> <<>>,
            data |-> [success |-> FALSE, output_path |-> <<>>, error |-> ""],
            completedFiles |-> <<>>, failedFiles |-> <<>>]

\* no /api/browse request made
NoBrowse == [pc |-> "idle", isdir |-> FALSE, readable |-> FALSE, entries |-> {},
             error |-> "", items |-> <<>>]

NoFirst == [set |-> FALSE, result |-> "none", msg |-> "", fs |-> [p \in AllPaths |-> "absent"],
            probe |-> NoProbe, beh |-> NoBehaviour]

Zero == [n |-> 0, d |-> 1]

\* the input files exist or not; at most one output path is already taken
Init ==
    /\ \E f \in [AllPaths -> {"absent", "empty", "data"}] :
         /\ f[P_in] = "data"
         /\ f[P_gone] = "absent"
         /\ Cardinality({p \in AllPaths \ {P_in} : f[p] # "absent"}) <= 1
         /\ fs = f
         /\ fs0 = f
    /\ pc = "idle"
    /\ op = "none"
    /\ input_path = <<>>
    /\ arg_output = <<>>
    /\ output_path = <<>>
    /\ target_size_mb = 0
    /\ audio_bitrate = 0
    /\ probe = NoProbe
    /\ video_bitrate = Zero
    /\ enc = NoEnc
    /\ result = "none"
    /\ msg = ""
    /\ spawned = <<>>
    /\ calls = 0
    /\ first = NoFirst
    /\ cli = NoCli
    /\ batch = NoBatch
    /\ brw = NoBrowse

\* return False after printing the error m
Fail(m) == pc' = "done" /\ result' = "False" /\ msg' = m

\* the exception e propagates out of the function
Raise(e) == pc' = "done" /\ result' = "raised" /\ msg' = e

\* return True
Succeed == pc' = "done" /\ result' = "True" /\ msg' = ""

Continue(at) == pc' = at /\ UNCHANGED <<result, msg>>

----------------------------------------------------------------------------
(* compress_video *)

\* the existence check of the input left out
InputMissing_unchecked(f, p) == FALSE

\* "if not os.path.isfile(input_path)"
InputMissing(f, p) == ~IsFile(f, p)

\* only a negative exit code (death by signal) taken as failure
ProbeFailed_signal(rc) == rc < 0

\* the exit code of ffprobe ignored
ProbeFailed_ignored(rc) == FALSE

\* "if probe.returncode != 0"
ProbeFailed(rc) == rc # 0

\* "if video_bitrate < 0"
TargetTooSmall_strict(vb) == vb.n < 0

\* "if video_bitrate <= 0"
TargetTooSmall(vb) == vb.n <= 0

\* "if result.returncode != 0"
EncodeFailed(rc) == rc # 0

\* the existence check of the output left out
OutputMissing_unchecked(f, p) == FALSE

\* "if not os.path.isfile(output_path)" after the ffmpeg call
OutputMissing(f, p) == ~IsFile(f, p)

\* the argument list of the ffmpeg call of compress_video
CompressArgv(in, out, vb) ==
    [input |-> in, vn |-> FALSE, vcodec |-> "libx264", bv |-> IntKbps(vb),
     acodec |-> "aac", ba |-> AudioKbps, faststart |-> TRUE,
     overwrite |-> OverwriteFlag, output |-> out]

\* entry of compress_video, up to the ffprobe call
CompressEnter(in, out, size) ==
    /\ op' = "compress"
    /\ input_path' = in
    /\ arg_output' = out
    /\ output_path' = out
    /\ target_size_mb' = size
    /\ audio_bitrate' = 0
    /\ probe' = NoProbe
    /\ video_bitrate' = Zero
    /\ enc' = NoEnc
    /\ spawned' = <<>>
    /\ IF InputMissing(fs, in) THEN Fail("InputNotFound") ELSE Continue("probe")
    /\ fs0' = fs
    /\ UNCHANGED fs

\* subprocess.run(["ffprobe", ...]) and the check of its exit code
CompressProbe ==
    /\ pc = "probe"
    /\ op = "compress"
    /\ \E b \in (IF first.set /\ first.probe.ran THEN {first.probe} ELSE ProbeBehaviours) :
         /\ probe' = b
         /\ spawned' = Append(spawned, "ffprobe")
         /\ IF ~b.spawned THEN Raise("OSError")
            ELSE IF ProbeFailed(b.rc) THEN Fail("ProbeFailed")
            ELSE Continue("budget")
    /\ UNCHANGED <<fs, fs0, op, input_path, arg_output, output_path, target_size_mb,
                   audio_bitrate, video_bitrate, enc, calls, first>>

\* from "duration = float(probe.stdout.strip())" to the check of video_bitrate
CompressBudget ==
    /\ pc = "budget"
    /\ op = "compress"
    /\ LET duration == ParseFloat(probe.out)
       IN  IF duration.kind = "ValueError" THEN
                Raise("ValueError") /\ UNCHANGED video_bitrate
           ELSE IF duration.kind = "nan" THEN       \* int(duration / 60)
                Raise("ValueError") /\ UNCHANGED video_bitrate
           ELSE IF duration.kind = "inf" THEN       \* int(duration / 60)
                Raise("OverflowError") /\ UNCHANGED video_bitrate
           ELSE IF duration.n = 0 THEN              \* target_size_bits / duration
                Raise("ZeroDivisionError") /\ UNCHANGED video_bitrate
           ELSE /\ video_bitrate' = VideoBitrate(target_size_mb, duration)
                /\ IF TargetTooSmall(video_bitrate') THEN Fail("TargetTooSmall")
                   ELSE Continue("encode")
    /\ UNCHANGED <<fs, fs0, op, input_path, arg_output, output_path, target_size_mb,
                   audio_bitrate, probe, enc, spawned, calls, first>>

\* subprocess.run(["ffmpeg", ...]) inside the try block of compress_video
CompressEncode ==
    /\ pc = "encode"
    /\ op = "compress"
    /\ \E b \in (IF first.set /\ first.beh.ran THEN {first.beh} ELSE EncoderBehaviours) :
         LET argv == CompressArgv(input_path, output_path, video_bitrate)
             ran  == EncoderRun(argv, b, fs)
         IN  /\ spawned' = Append(spawned, "ffmpeg")
             /\ IF ~b.spawned
                THEN /\ enc' = [argv |-> argv, beh |-> b, rc |-> 1]
                     /\ Fail("EncodeFailed")        \* except Exception
                     /\ UNCHANGED fs
                ELSE /\ enc' = [argv |-> argv, beh |-> b, rc |-> ran.rc]
                     /\ fs' = ran.fs
                     /\ Continue("verify")
    /\ UNCHANGED <<fs0, op, input_path, arg_output, output_path, target_size_mb,
                   audio_bitrate, probe, video_bitrate, calls, first>>

\* the checks after the ffmpeg call of compress_video
CompressVerify ==
    /\ pc = "verify"
    /\ op = "compress"
    /\ IF EncodeFailed(enc.rc) THEN Fail("EncodeFailed")
       ELSE IF OutputMissing(fs, output_path) THEN Fail("OutputMissing")
       ELSE Succeed
    /\ UNCHANGED <<fs, fs0, op, input_path, arg_output, output_path, target_size_mb,
                   audio_bitrate, probe, video_bitrate, enc, spawned, calls, first>>

----------------------------------------------------------------------------
(* extract_audio *)

\* the input path given where the output path belongs
ExtractArgv_swapped(in, out, kbps) ==
    [input |-> out, vn |-> TRUE, vcodec |-> "", bv |-> 0,
     acodec |-> "libmp3lame", ba |-> kbps, faststart |-> FALSE,
     overwrite |-> TRUE, output |-> in]

\* the argument list of the ffmpeg call of extract_audio
ExtractArgv(in, out, kbps) ==
    [input |-> in, vn |-> TRUE, vcodec |-> "", bv |-> 0,
     acodec |-> "libmp3lame", ba |-> kbps, faststart |-> FALSE,
     overwrite |-> OverwriteFlag, output |-> out]

\* entry of extract_audio, up to the ffmpeg call
ExtractEnter(in, out, kbps) ==
    /\ op' = "extract"
    /\ input_path' = in
    /\ arg_output' = out
    /\ target_size_mb' = 0
    /\ audio_bitrate' = kbps
    /\ probe' = NoProbe
    /\ video_bitrate' = Zero
    /\ enc' = NoEnc
    /\ spawned' = <<>>
    /\ IF InputMissing(fs, in)
       THEN Fail("InputNotFound") /\ output_path' = out
       ELSE Continue("encode") /\ output_path' = ResolveAudioPath(out)
    /\ fs0' = fs
    /\ UNCHANGED fs

\* subprocess.run(["ffmpeg", ...]) inside the try block of extract_audio
ExtractEncode ==
    /\ pc = "encode"
    /\ op = "extract"
    /\ \E b \in (IF first.set /\ first.beh.ran THEN {first.beh} ELSE EncoderBehaviours) :
         LET argv == ExtractArgv(input_path, output_path, audio_bitrate)
             ran  == EncoderRun(argv, b, fs)
         IN  /\ spawned' = Append(spawned, "ffmpeg")
             /\ IF ~b.spawned
                THEN /\ enc' = [argv |-> argv, beh |-> b, rc |-> 1]
                     /\ Fail("EncodeFailed")        \* except Exception
                     /\ UNCHANGED fs
                ELSE /\ enc' = [argv |-> argv, beh |-> b, rc |-> ran.rc]
                     /\ fs' = ran.fs
                     /\ Continue("verify")
    /\ UNCHANGED <<fs0, op, input_path, arg_output, output_path, target_size_mb,
                   audio_bitrate, probe, video_bitrate, calls, first>>

\* the checks after the ffmpeg call of extract_audio
ExtractVerify ==
    /\ pc = "verify"
    /\ op = "extract"
    /\ IF EncodeFailed(enc.rc) THEN Fail("EncodeFailed")
       ELSE IF OutputMissing(fs, output_path) THEN Fail("OutputMissing")
       ELSE Succeed
    /\ UNCHANGED <<fs, fs0, op, input_path, arg_output, output_path, target_size_mb,
                   audio_bitrate, probe, video_bitrate, enc, spawned, calls, first>>

----------------------------------------------------------------------------
(* The callers *)

\* compress_video(input_path, output_path, target_size_mb)
CallCompress ==
    /\ pc = "idle"
    /\ calls < MaxCalls
    /\ calls' = calls + 1
    /\ first' = NoFirst
    /\ \E in \in InputPaths, out \in OutputPaths, size \in TargetSizes :
         CompressEnter(in, out, size)

\* extract_audio(input_path, output_path, audio_bitrate)
CallExtract ==
    /\ pc = "idle"
    /\ calls < MaxCalls
    /\ calls' = calls + 1
    /\ first' = NoFirst
    /\ \E in \in InputPaths, out \in OutputPaths, kbps \in AudioBitrates :
         ExtractEnter(in, out, kbps)

\* the call that has just returned is made again with the same arguments,
\* and the child processes behave as they did
CallAgain ==
    /\ pc = "done"
    /\ ~first.set
    /\ first' = [set |-> TRUE, result |-> result, msg |-> msg, fs |-> fs,
                 probe |-> probe, beh |-> enc.beh]
    /\ IF op = "compress"
       THEN CompressEnter(input_path, arg_output, target_size_mb)
       ELSE ExtractEnter(input_path, arg_output, audio_bitrate)
    /\ UNCHANGED calls

\* the caller has taken the result
Return ==
    /\ pc = "done"
    /\ pc' = "idle"
    /\ op' = "none"
    /\ input_path' = <<>>
    /\ arg_output' = <<>>
    /\ output_path' = <<>>
    /\ target_size_mb' = 0
    /\ audio_bitrate' = 0
    /\ probe' = NoProbe
    /\ video_bitrate' = Zero
    /\ enc' = NoEnc
    /\ result' = "none"
    /\ msg' = ""
    /\ spawned' = <<>>
    /\ first' = NoFirst
    /\ fs0' = fs
    /\ UNCHANGED <<fs, calls>>

\* the variables of the command line that the functions do not touch
beside == <<cli, batch, brw>>

Next ==
    \/ CallCompress /\ UNCHANGED beside
    \/ CallExtract /\ UNCHANGED beside
    \/ CallAgain /\ UNCHANGED beside
    \/ CompressProbe /\ UNCHANGED beside
    \/ CompressBudget /\ UNCHANGED beside
    \/ CompressEncode /\ UNCHANGED beside
    \/ CompressVerify /\ UNCHANGED beside
    \/ ExtractEncode /\ UNCHANGED beside
    \/ ExtractVerify /\ UNCHANGED beside
    \/ Return /\ UNCHANGED beside

Spec == Init /\ [][Next]_vars

----------------------------------------------------------------------------
(* main: the command line *)

\* --size values (type=float) and --audio-bitrate values (type=int, default 192)
CliSizes    == {-1, 0, 1, 10}
CliBitrates == {-8, 0, 64, 192}

\* "if args.size <= 0"
SizeInvalid(size) == size <= 0

\* main(), from parse_args() to the call of extract_audio or compress_video
MainCall ==
    /\ cli.pc = "start"
    /\ pc = "idle"
    /\ UNCHANGED <<calls, first>>
    /\ \E in \in InputPaths, out \in OutputPaths, audio \in BOOLEAN,
          size \in CliSizes, kbps \in CliBitrates :
         LET args == [pc |-> "called", audio_only |-> audio,
                      size |-> IF audio THEN 0 ELSE size,   \* mutually exclusive group
                      audio_bitrate |-> kbps, status |-> 0]
         IN  IF ~IsFile(fs, in)
             THEN /\ cli' = [args EXCEPT !.pc = "exited", !.status = 1]
                  /\ UNCHANGED <<fs, fs0, pc, op, input_path, arg_output, output_path,
                                 target_size_mb, audio_bitrate, probe, video_bitrate,
                                 enc, result, msg, spawned>>
             ELSE IF audio
             THEN cli' = args /\ ExtractEnter(in, out, kbps)
             ELSE IF SizeInvalid(size)
             THEN /\ cli' = [args EXCEPT !.pc = "exited", !.status = 1]
                  /\ UNCHANGED <<fs, fs0, pc, op, input_path, arg_output, output_path,
                                 target_size_mb, audio_bitrate, probe, video_bitrate,
                                 enc, result, msg, spawned>>
             ELSE cli' = args /\ CompressEnter(in, out, size)

\* "if not success: sys.exit(1)", or the exception of compress_video ends the
\* interpreter with status 1, or main() returns and the status is 0
MainExit ==
    /\ cli.pc = "called"
    /\ pc = "done"
    /\ cli' = [cli EXCEPT !.pc = "exited",
                          !.status = IF result = "True" THEN 0 ELSE 1]
    /\ UNCHANGED core

CliNext ==
    \/ MainCall /\ UNCHANGED <<batch, brw>>
    \/ CompressProbe /\ UNCHANGED beside
    \/ CompressBudget /\ UNCHANGED beside
    \/ CompressEncode /\ UNCHANGED beside
    \/ CompressVerify /\ UNCHANGED beside
    \/ ExtractEncode /\ UNCHANGED beside
    \/ ExtractVerify /\ UNCHANGED beside
    \/ MainExit /\ UNCHANGED <<batch, brw>>

SpecCli == Init /\ [][CliNext]_vars

----------------------------------------------------------------------------
(* The web page's batch conversion and the /api/convert handler *)

\* files selected at once
MaxSelected == 3

\* a character above U+00FF (a Hebrew letter), as a file name may hold
NonLatin1 == "U+05E9"

B_ax  == <<"/", "a", "/", "x", ".", "m", "o", "v">>
B_bx  == <<"/", "b", "/", "x", ".", "m", "o", "v">>
B_ay  == <<"/", "a", "/", "y", ".", "m", "o", "v">>
B_az  == <<"/", "a", "/", "z", ".", "m", "o", "v">>
B_heb == <<"/", "a", "/", NonLatin1, ".", "m", "o", "v">>

\* the files offered for selection; B_az is removed before the conversion
BatchInputs == {B_ax, B_bx, B_ay, B_az, B_heb}

\* output_path of run_ui
OutputDir == <<"/", "o">>

\* os.path.basename
Basename(p) == SubSeq(p, RFind(p, "/") + 1, Len(p))

\* os.path.join(a, b)
JoinPath(a, b) ==
    IF b # <<>> /\ b[1] = "/" THEN b
    ELSE IF a = <<>> \/ a[Len(a)] = "/" THEN a \o b
    ELSE a \o <<"/">> \o b

\* convert(): base_name = os.path.splitext(os.path.basename(input_path))[0];
\* output_file = os.path.join(output_path, f"{base_name}.mp3")
ConvertOutput(dir, in) == JoinPath(dir, SplitExt(Basename(in))[1] \o Mp3Suffix)

BatchPaths == BatchInputs \cup {ConvertOutput(OutputDir, p) : p \in BatchInputs}

\* btoa(text) throws InvalidCharacterError on a character above U+00FF
BtoaThrows(text) == \E k \in 1..Len(text) : text[k] = NonLatin1

\* the sequences of distinct elements of S of length at most n
RECURSIVE Arrangements(_, _)
Arrangements(S, n) ==
    IF n = 0 THEN {<<>>}
    ELSE LET shorter == Arrangements(S, n - 1)
             longer  == {Append(q, x) : q \in shorter, x \in S}
             NoRepeat(q) == \A a, b \in 1..Len(q) : q[a] = q[b] => a = b
         IN  shorter \cup {q \in longer : NoRepeat(q)}

\* the page with some files selected (a Set keeps insertion order, no
\* duplicates); the server's output directory is empty
BatchInit ==
    /\ fs = [p \in BatchPaths |-> IF p \in BatchInputs \ {B_az} THEN "data" ELSE "absent"]
    /\ fs0 = fs
    /\ pc = "idle"
    /\ op = "none"
    /\ input_path = <<>>
    /\ arg_output = <<>>
    /\ output_path = <<>>
    /\ target_size_mb = 0
    /\ audio_bitrate = 0
    /\ probe = NoProbe
    /\ video_bitrate = Zero
    /\ enc = NoEnc
    /\ result = "none"
    /\ msg = ""
    /\ spawned = <<>>
    /\ calls = 0
    /\ first = NoFirst
    /\ cli = NoCli
    /\ brw = NoBrowse
    /\ \E sel \in Arrangements(BatchInputs, MaxSelected) :
         batch = [NoBatch EXCEPT !.selectedFiles = sel]

\* startConversion() up to the loop: nothing selected, or the progress items
\* are built, one per file with id 'progress-' + btoa(path)
StartConversion ==
    /\ batch.pc = "idle"
    /\ IF batch.selectedFiles = <<>>
       THEN batch' = [batch EXCEPT !.pc = "returned"]
       ELSE IF \E k \in 1..Len(batch.selectedFiles) : BtoaThrows(batch.selectedFiles[k])
       THEN batch' = [batch EXCEPT !.pc = "rejected", !.chosen = batch.selectedFiles]
       ELSE batch' = [batch EXCEPT !.pc = "loop", !.i = 1,
                                   !.chosen = batch.selectedFiles,
                                   !.progress = {batch.selectedFiles[k] :
                                                   k \in 1..Len(batch.selectedFiles)}]
    /\ UNCHANGED <<core, cli, brw>>

\* the item after the one just recorded, or the end of the loop: the results
\* are shown and the selection is cleared
AfterItem(b) ==
    IF b.i < Len(b.selectedFiles)
    THEN [b EXCEPT !.pc = "loop", !.i = b.i + 1]
    ELSE [b EXCEPT !.pc = "finished", !.selectedFiles = <<>>]

\* the loop body up to "await fetch('/api/convert', ...)": the request is sent
Fetch ==
    /\ batch.pc = "loop"
    /\ LET filePath == batch.selectedFiles[batch.i]
       IN  IF BtoaThrows(filePath) \/ filePath \notin batch.progress
           THEN batch' = [batch EXCEPT !.pc = "rejected"]
           ELSE batch' = [batch EXCEPT !.pc = "sent",
                                       !.requests = Append(batch.requests, filePath)]
    /\ UNCHANGED <<core, cli, brw>>

\* fetch() or response.json() throws: "catch (e)"
FetchThrows ==
    /\ batch.pc = "sent"
    /\ LET filePath == batch.selectedFiles[batch.i]
           failed   == Append(batch.failedFiles, [input |-> filePath, error |-> "exception"])
       IN  batch' = AfterItem([batch EXCEPT !.failedFiles = failed])
    /\ UNCHANGED <<core, cli, brw>>

\* convert(), up to the call of extract_audio
Convert ==
    /\ batch.pc = "sent"
    /\ pc \in {"idle", "done"}
    /\ UNCHANGED <<calls, first, cli, brw>>
    /\ LET path == batch.selectedFiles[batch.i]
           out  == ConvertOutput(OutputDir, path)
           no(e) == [success |-> FALSE, output_path |-> <<>>, error |-> e]
       IN  IF path = <<>>
           THEN /\ batch' = [batch EXCEPT !.pc = "responded", !.data = no("No input path provided")]
                /\ UNCHANGED <<fs, fs0, pc, op, input_path, arg_output, output_path,
                               target_size_mb, audio_bitrate, probe, video_bitrate,
                               enc, result, msg, spawned>>
           ELSE IF ~IsFile(fs, path)
           THEN /\ batch' = [batch EXCEPT !.pc = "responded", !.data = no("File not found")]
                /\ UNCHANGED <<fs, fs0, pc, op, input_path, arg_output, output_path,
                               target_size_mb, audio_bitrate, probe, video_bitrate,
                               enc, result, msg, spawned>>
           ELSE /\ batch' = [batch EXCEPT !.pc = "extracting", !.output_file = out]
                /\ ExtractEnter(path, out, 192)

\* convert(), after extract_audio has returned: the JSON response
ConvertRespond ==
    /\ batch.pc = "extracting"
    /\ pc = "done"
    /\ batch' = [batch EXCEPT
                   !.pc = "responded",
                   !.data = IF result = "True"
                            THEN [success |-> TRUE, output_path |-> batch.output_file,
                                  error |-> ""]
                            ELSE [success |-> FALSE, output_path |-> <<>>,
                                  error |-> "Conversion failed"]]
    /\ UNCHANGED <<core, cli, brw>>

\* the loop body after "await response.json()": the item is recorded
Record ==
    /\ batch.pc = "responded"
    /\ LET filePath == batch.selectedFiles[batch.i]
           done   == Append(batch.completedFiles,
                            [input |-> filePath, output |-> batch.data.output_path])
           failed == Append(batch.failedFiles,
                            [input |-> filePath, error |-> batch.data.error])
       IN  batch' = AfterItem(IF batch.data.success
                              THEN [batch EXCEPT !.completedFiles = done]
                              ELSE [batch EXCEPT !.failedFiles = failed])
    /\ UNCHANGED <<core, cli, brw>>

BatchNext ==
    \/ StartConversion
    \/ Fetch
    \/ FetchThrows
    \/ Convert
    \/ ExtractEncode /\ UNCHANGED beside
    \/ ExtractVerify /\ UNCHANGED beside
    \/ ConvertRespond
    \/ Record

SpecBatch == BatchInit /\ [][BatchNext]_vars

----------------------------------------------------------------------------
(* The /api/browse handler *)

\* the code point of a character of a file name
Ord(c) ==
    CASE c = "." -> 46 [] c = "/" -> 47
      [] c = "A" -> 65 [] c = "B" -> 66 [] c = "M" -> 77 [] c = "O" -> 79
      [] c = "T" -> 84 [] c = "V" -> 86 [] c = "X" -> 88 [] c = "Z" -> 90
      [] c = "_" -> 95
      [] c = "a" -> 97 [] c = "b" -> 98 [] c = "c" -> 99 [] c = "d" -> 100
      [] c = "m" -> 109 [] c = "o" -> 111 [] c = "t" -> 116 [] c = "v" -> 118
      [] c = "x" -> 120 [] c = "z" -> 122 [] c = "~" -> 126

\* str.lower() of one character
LowerChar(c) ==
    CASE c = "A" -> "a" [] c = "B" -> "b" [] c = "M" -> "m" [] c = "O" -> "o"
      [] c = "T" -> "t" [] c = "V" -> "v" [] c = "X" -> "x" [] c = "Z" -> "z"
      [] OTHER -> c

\* str.lower()
LowerName(name) == [k \in 1..Len(name) |-> LowerChar(name[k])]

\* str.__lt__: the order of the code points, a proper prefix first
RECURSIVE StrLess(_, _)
StrLess(a, b) ==
    IF b = <<>> THEN FALSE
    ELSE IF a = <<>> THEN TRUE
    ELSE IF a[1] # b[1] THEN Ord(a[1]) < Ord(b[1])
    ELSE StrLess(Tail(a), Tail(b))

\* str.endswith
EndsWith(name, suffix) ==
    /\ Len(name) >= Len(suffix)
    /\ SubSeq(name, Len(name) - Len(suffix) + 1, Len(name)) = suffix

DotMov == <<".", "m", "o", "v">>

\* entry.lower().endswith('.mov')
IsMov(name) == EndsWith(LowerName(name), DotMov)

HomeDir == <<"/", "m">>

\* os.path.expanduser
Expanduser(path) ==
    IF path # <<>> /\ path[1] = "~" /\ (Len(path) = 1 \/ path[2] = "/")
    THEN HomeDir \o Tail(path)
    ELSE path

\* the ?path= of a request
BrowseRequests == {<<"/", "m">>, <<"~">>, <<"~", "/", "d">>}

E(name, isdir) == [name |-> name, isdir |-> isdir]

\* what the directory may hold: each name with what os.path.isdir says of it
DirEntries ==
    { E(<<"b">>, TRUE),
      E(<<"A">>, TRUE),
      E(<<"d", ".", "m", "o", "v">>, TRUE),
      E(<<"a", ".", "m", "o", "v">>, FALSE),
      E(<<"B", ".", "M", "O", "V">>, FALSE),
      E(<<"Z", ".", "m", "o", "v">>, FALSE),
      E(<<"_", ".", "M", "o", "v">>, FALSE),
      E(<<"c", ".", "t", "x", "t">>, FALSE),
      E(<<"m", "o", "v">>, FALSE) }

\* sorted(os.listdir(path)): the entries by name
RECURSIVE SortedListdir(_)
SortedListdir(S) ==
    IF S = {} THEN <<>>
    ELSE LET least == CHOOSE e \in S : \A o \in S \ {e} : StrLess(e.name, o.name)
         IN  <<least>> \o SortedListdir(S \ {least})

\* the loop of browse(): a directory, or a name ending in .mov, makes an item
Item(path, e) ==
    [name |-> e.name, path |-> JoinPath(path, e.name),
     type |-> IF e.isdir THEN "directory" ELSE "file"]

RECURSIVE ListItems(_, _)
ListItems(path, es) ==
    IF es = <<>> THEN <<>>
    ELSE LET e == Head(es)
         IN  (IF e.isdir \/ IsMov(e.name) THEN <<Item(path, e)>> ELSE <<>>)
                 \o ListItems(path, Tail(es))

\* the order of the sort key with the type left out
KeyLess_nameonly(x, y) == StrLess(LowerName(x.name), LowerName(y.name))

\* the order of the sort key (x['type'] != 'directory', x['name'].lower())
KeyLess(x, y) ==
    LET fx == x.type # "directory"
        fy == y.type # "directory"
    IN  IF fx # fy THEN fy
        ELSE StrLess(LowerName(x.name), LowerName(y.name))

\* list.sort(key=...): stable, equal keys keep their order
RECURSIVE InsertSorted(_, _)
InsertSorted(sorted, x) ==
    IF sorted = <<>> THEN <<x>>
    ELSE IF KeyLess(x, Head(sorted)) THEN <<x>> \o sorted
    ELSE <<Head(sorted)>> \o InsertSorted(Tail(sorted), x)

RECURSIVE SortItems(_)
SortItems(items) ==
    IF items = <<>> THEN <<>>
    ELSE InsertSorted(SortItems(SubSeq(items, 1, Len(items) - 1)), items[Len(items)])

\* a directory to list, or none at the path, and a request not yet made
BrowseInit ==
    /\ fs = [p \in AllPaths |-> IF p = P_in THEN "data" ELSE "absent"]
    /\ fs0 = fs
    /\ pc = "idle"
    /\ op = "none"
    /\ input_path = <<>>
    /\ arg_output = <<>>
    /\ output_path = <<>>
    /\ target_size_mb = 0
    /\ audio_bitrate = 0
    /\ probe = NoProbe
    /\ video_bitrate = Zero
    /\ enc = NoEnc
    /\ result = "none"
    /\ msg = ""
    /\ spawned = <<>>
    /\ calls = 0
    /\ first = NoFirst
    /\ cli = NoCli
    /\ batch = NoBatch
    /\ \/ brw = NoBrowse
       \/ \E readable \in BOOLEAN, es \in SUBSET DirEntries :
            brw = [NoBrowse EXCEPT !.isdir = TRUE, !.readable = readable, !.entries = es]

\* browse()
Browse ==
    /\ brw.pc = "idle"
    /\ \E request \in BrowseRequests :
         LET path == Expanduser(request)
         IN  IF ~brw.isdir
             THEN brw' = [brw EXCEPT !.pc = "responded", !.error = "Directory not found",
                                     !.items = <<>>]
             ELSE IF ~brw.readable
             THEN brw' = [brw EXCEPT !.pc = "responded", !.error = "Permission denied",
                                     !.items = <<>>]
             ELSE brw' = [brw EXCEPT !.pc = "responded",
                                     !.items = SortItems(ListItems(path,
                                                   SortedListdir(brw.entries)))]
    /\ UNCHANGED <<core, cli, batch>>

BrowseNext == Browse

SpecBrowse == BrowseInit /\ [][BrowseNext]_vars

----------------------------------------------------------------------------
(* Properties *)

\* the duration the prober reported, as compress_video reads it
Duration == ParseFloat(probe.out)

\* ffprobe exited with code zero
ProbeExitedZero == probe.ran /\ probe.spawned /\ probe.rc = 0

\* the current call has started ffmpeg
EncoderInvoked == enc.beh.ran

\* p has a file-extension component: a dot in its last path component that
\* some character other than a dot precedes in that component
HasExtension(p) ==
    \E i \in 1..Len(p) :
        /\ p[i] = "."
        /\ \A j \in i..Len(p) : p[j] # "/"
        /\ \E k \in 1..(i-1) : p[k] # "." /\ \A m \in k..i : p[m] # "/"

\* the output path of the current call once resolved
ResolvedOutput ==
    IF op = "extract" /\ ~HasExtension(arg_output)
    THEN arg_output \o Mp3Suffix
    ELSE arg_output

\* C1: for a duration D > 0 and a target size S > 0 with
\* (S*8*1024*1024)/D - 128000 > 0, compress_video invokes the encoder with
\* audio bitrate 128 kbps and video bitrate ((S*8*1024*1024)/D - 128000) in
\* whole kbps (D = 120, S = 10: 571 kbps and 128 kbps).
C1_BitrateAllocation ==
    ( /\ op = "compress"
      /\ EncoderInvoked
      /\ Duration.kind = "num" /\ Duration.n > 0
      /\ target_size_mb > 0
      /\ target_size_mb * 8 * 1024 * 1024 * Duration.d - 128000 * Duration.n > 0 )
    => /\ enc.argv.ba = 128
       /\ enc.argv.bv = (target_size_mb * 8 * 1024 * 1024 * Duration.d - 128000 * Duration.n)
                           \div (1000 * Duration.n)

\* C2: when the total bitrate (S*8*1024*1024)/D does not exceed the reserved
\* audio bitrate, compress_video returns failure (TargetTooSmall) and never
\* invokes the encoder in that call.
C2_TargetTooSmall ==
    ( /\ op = "compress"
      /\ ProbeExitedZero
      /\ pc \notin {"probe", "budget"}
      /\ Duration.kind = "num" /\ Duration.n > 0
      /\ TargetBits(target_size_mb) * Duration.d <= AudioBitrate * Duration.n )
    => /\ pc = "done"
       /\ result = "False"
       /\ msg = "TargetTooSmall"
       /\ spawned = <<"ffprobe">>

\* a 600 s video and a 1 MB target: TargetTooSmall
C2_Witness ==
    /\ pc = "done" /\ op = "compress" /\ msg = "TargetTooSmall"
    /\ target_size_mb = 1
    /\ Duration = [kind |-> "num", n |-> 600, d |-> 1]

\* C3: if input_path is no existing regular file, compress_video and
\* extract_audio return failure (InputNotFound) without starting any
\* subprocess.  (No step removes a file, so a missing input was missing when
\* the call was made.)
C3_InputNotFound ==
    (op # "none" /\ ~IsFile(fs, input_path))
    => /\ pc = "done"
       /\ result = "False"
       /\ msg = "InputNotFound"
       /\ spawned = <<>>
       /\ ~probe.ran
       /\ ~EncoderInvoked

C3_Witness ==
    /\ pc = "done" /\ op = "extract" /\ input_path = P_gone
    /\ msg = "InputNotFound"
    /\ first.set /\ first.msg = "InputNotFound"

\* C4: if the prober exits with a non-zero code, compress_video returns
\* failure (ProbeFailed) and never invokes the encoder in that call.
C4_ProbeFailed ==
    (op = "compress" /\ probe.ran /\ probe.spawned /\ probe.rc # 0)
    => /\ pc = "done"
       /\ result = "False"
       /\ msg = "ProbeFailed"
       /\ spawned = <<"ffprobe">>
       /\ ~EncoderInvoked

\* the prober printed a duration and still exited with code 1
C4_Witness ==
    /\ pc = "done" /\ op = "compress" /\ msg = "ProbeFailed"
    /\ probe.rc = 1 /\ probe.out = <<"6", "4">>

\* C5: if the prober exits zero but its output does not parse as a positive
\* floating-point number, compress_video fails with ProbeFailed as a returned
\* failure value (no uncaught fault, no other error kind) and never invokes
\* the encoder.
C5_UnparseableDuration ==
    ( /\ op = "compress"
      /\ ProbeExitedZero
      /\ pc \notin {"probe", "budget"}
      /\ ~(Duration.kind = "num" /\ Duration.n > 0) )
    => /\ result = "False"
       /\ msg = "ProbeFailed"
       /\ ~EncoderInvoked

\* C6: for both functions, once the encoder has been invoked the call returns
\* success if and only if the encoder exited with code zero and a regular file
\* exists at the resolved output path afterwards; a non-zero exit yields
\* EncodeFailed and a zero exit with no file there yields OutputMissing.
C6_EncoderOutcome ==
    (pc = "done" /\ EncoderInvoked)
    => /\ result \in {"True", "False"}
       /\ result = "True" <=>
             (enc.beh.spawned /\ enc.rc = 0 /\ IsFile(fs, ResolvedOutput))
       /\ (enc.beh.spawned /\ enc.rc # 0) => msg = "EncodeFailed"
       /\ (enc.beh.spawned /\ enc.rc = 0 /\ ~IsFile(fs, ResolvedOutput))
             => msg = "OutputMissing"

\* the encoder exited zero and left nothing at the output path
C6_Witness ==
    /\ pc = "done" /\ op = "compress" /\ EncoderInvoked
    /\ enc.beh.spawned /\ enc.rc = 0
    /\ ~IsFile(fs, ResolvedOutput)
    /\ result = "False" /\ msg = "OutputMissing"

\* C7: extract_audio passes to the encoder, and checks for existence
\* afterwards, output_path with ".mp3" appended when output_path has no
\* file-extension component ("clip" becomes "clip.mp3"), and output_path
\* unchanged when it has one.
C7_DefaultExtension ==
    (op = "extract" /\ EncoderInvoked)
    => /\ enc.argv.output =
             (IF HasExtension(arg_output) THEN arg_output ELSE arg_output \o Mp3Suffix)
       /\ arg_output = P_clip => enc.argv.output = P_clipmp3
       /\ (pc = "done" /\ result = "True") => IsFile(fs, enc.argv.output)
       /\ (pc = "done" /\ msg = "OutputMissing") => ~IsFile(fs, enc.argv.output)

\* extract_audio(..., "clip") succeeded with the file at "clip.mp3", none at "clip"
C7_Witness ==
    /\ pc = "done" /\ op = "extract" /\ result = "True"
    /\ arg_output = P_clip
    /\ enc.argv.output = P_clipmp3
    /\ IsFile(fs, P_clipmp3) /\ ~IsFile(fs, P_clip)

\* C8: calling compress_video or extract_audio twice in a row with the same
\* arguments, the prober and the encoder behaving the same, returns the same
\* result both times and leaves the filesystem as the first call left it: the
\* second call creates no file.
C8_Idempotence ==
    (pc = "done" /\ first.set)
    => /\ result = first.result
       /\ msg = first.msg
       /\ fs = first.fs

\* the second of two successful calls has overwritten the output of the first
C8_Witness ==
    /\ pc = "done" /\ first.set
    /\ result = "True" /\ first.result = "True"
    /\ spawned = <<"ffprobe", "ffmpeg">>
    /\ enc.beh.write = "data"
    /\ fs[ResolvedOutput] = "data"

\* C9: within one call the child processes run in sequence and without retry:
\* compress_video starts the prober at most once and the encoder at most once,
\* the encoder only after the prober has exited with code zero; extract_audio
\* starts the encoder at most once and never the prober; after a failure of a
\* child process the call starts no other.
C9_SequentialNoRetry ==
    /\ op = "compress" => spawned \in {<<>>, <<"ffprobe">>, <<"ffprobe", "ffmpeg">>}
    /\ op = "extract" => spawned \in {<<>>, <<"ffmpeg">>}
    /\ op = "none" => spawned = <<>>
    /\ (op = "compress" /\ EncoderInvoked) => ProbeExitedZero
    /\ (probe.ran /\ ~ProbeExitedZero) => (pc = "done" /\ spawned = <<"ffprobe">>)
    /\ (EncoderInvoked /\ (~enc.beh.spawned \/ enc.rc # 0))
          => (pc \in {"verify", "done"} /\ spawned[Len(spawned)] = "ffmpeg")

\* compress_video ran the prober, then the encoder, which failed: nothing more
C9_Witness ==
    /\ pc = "done" /\ op = "compress"
    /\ spawned = <<"ffprobe", "ffmpeg">>
    /\ enc.rc # 0 /\ result = "False"

\* C10: whenever compress_video or extract_audio returns success, the file at
\* the resolved output path exists and is non-empty, whatever the encoder did.
C10_NonEmptyOnSuccess ==
    (pc = "done" /\ result = "True") => fs[ResolvedOutput] = "data"

\* C11 as stated: the only filesystem state a call to compress_video or
\* extract_audio may change is the file at output_path, the path the caller
\* passed; a call that fails before the encoder is invoked leaves that file
\* unchanged too.
C11_FrameAtOutputPath ==
    op # "none" =>
        /\ \A p \in DOMAIN fs : fs[p] # fs0[p] => p = arg_output
        /\ ~EncoderInvoked => fs = fs0

\* C11, amended: the only filesystem state a call may change is the file at
\* the resolved output path (for extract_audio, output_path with ".mp3"
\* appended when it has no extension); every other path is left unchanged, and
\* a call that fails before the encoder is invoked (InputNotFound,
\* ProbeFailed, TargetTooSmall) changes nothing.
C11_FrameAtResolvedOutput ==
    op # "none" =>
        /\ \A p \in DOMAIN fs : fs[p] # fs0[p] => p = ResolvedOutput
        /\ ~EncoderInvoked => fs = fs0
        /\ (pc = "done" /\ msg \in {"InputNotFound", "ProbeFailed", "TargetTooSmall"})
              => fs = fs0

\* extract_audio("in.mov", "clip") created "clip.mp3" and nothing else
C11_Witness ==
    /\ pc = "done" /\ op = "extract" /\ arg_output = P_clip
    /\ fs0[P_clipmp3] = "absent" /\ fs[P_clipmp3] = "data"
    /\ \A p \in DOMAIN fs \ {P_clipmp3} : fs[p] = fs0[p]

\* C16: whenever compress_video invokes the encoder, the integer video bitrate
\* it passes is at least 1 kbps: the encoder is never invoked with "0k".
C16_VideoBitrateAtLeast1k ==
    (op = "compress" /\ EncoderInvoked) => enc.argv.bv >= 1

\* C14: the command line rejects invalid numeric arguments before any
\* operation runs: with --size <= 0, or with --audio-bitrate <= 0 in
\* audio-only mode, the process exits with non-zero status, compress_video and
\* extract_audio are not called and no child process is started.
C14_InvalidArgumentRejected ==
    ( /\ cli.pc # "start"
      /\ \/ ~cli.audio_only /\ cli.size <= 0
         \/ cli.audio_only /\ cli.audio_bitrate <= 0 )
    => /\ cli.pc = "exited"
       /\ cli.status # 0
       /\ op = "none"
       /\ spawned = <<>>

\* the /api/convert requests made so far are the first files of the selection
\* taken by the loop, in order, each once
RequestsInOrder ==
    /\ Len(batch.requests) <= Len(batch.chosen)
    /\ batch.requests = SubSeq(batch.chosen, 1, Len(batch.requests))

\* the inputs recorded as completed or failed, in the order of the selection
Recorded(b) ==
    {b.completedFiles[k].input : k \in 1..Len(b.completedFiles)}
        \cup {b.failedFiles[k].input : k \in 1..Len(b.failedFiles)}

\* startConversion() has ended: it returned, or it threw
BatchEnded == batch.pc \in {"finished", "rejected"}

\* C12: in a batch of /api/convert calls for distinct input files, no two
\* different inputs are given the same output file, so no conversion
\* overwrites the output of another.
C12_DistinctOutputs ==
    \A a, b \in 1..Len(batch.completedFiles) :
        batch.completedFiles[a].input # batch.completedFiles[b].input
            => batch.completedFiles[a].output # batch.completedFiles[b].output

\* C13: the batch loop takes every selected file exactly once, one at a time,
\* an item starting only when the one before it is recorded as completed or
\* failed; a failure of one item does not keep a later one from being tried;
\* when the conversion ends every selected file is recorded as completed or
\* as failed.
C13_EveryFileRecordedOnce ==
    /\ RequestsInOrder
    /\ batch.pc \in {"sent", "extracting", "responded"}
         => Len(batch.requests) = Len(batch.completedFiles) + Len(batch.failedFiles) + 1
    /\ batch.pc \in {"loop", "finished"}
         => Len(batch.requests) = Len(batch.completedFiles) + Len(batch.failedFiles)
    /\ BatchEnded
         => /\ batch.requests = batch.chosen
            /\ Recorded(batch) = {batch.chosen[k] : k \in 1..Len(batch.chosen)}
            /\ Len(batch.completedFiles) + Len(batch.failedFiles) = Len(batch.chosen)

\* the names of the items of a response, and the entries they come from
ItemEntries(items) ==
    {E(items[k].name, items[k].type = "directory") : k \in 1..Len(items)}

\* ".mov" in every mix of upper and lower case
MovSpellings ==
    {<<".", m, o, v>> : m \in {"m", "M"}, o \in {"o", "O"}, v \in {"v", "V"}}

\* C15: /api/browse on an existing readable directory returns exactly the
\* entries that are directories or whose name ends in .mov in any case, all
\* directories before all files and each group in case-insensitive name
\* order; for a missing directory it returns an error and no items.
C15_BrowseListing ==
    brw.pc = "responded" =>
        /\ (brw.isdir /\ brw.readable) =>
              /\ brw.error = ""
              /\ ItemEntries(brw.items) =
                    {e \in brw.entries :
                        e.isdir \/ \E suffix \in MovSpellings : EndsWith(e.name, suffix)}
              /\ Len(brw.items) = Cardinality(ItemEntries(brw.items))
              /\ \A i, j \in 1..Len(brw.items) :
                    i < j =>
                      /\ brw.items[j].type = "directory"
                            => brw.items[i].type = "directory"
                      /\ brw.items[i].type = brw.items[j].type
                            => ~StrLess(LowerName(brw.items[j].name),
                                        LowerName(brw.items[i].name))
        /\ ~brw.isdir => brw.error # "" /\ brw.items = <<>>

\* a listing with a directory, files in both cases whose order by code point
\* is not their order without case, and an entry that is left out
C15_Witness ==
    /\ brw.pc = "responded" /\ brw.isdir /\ brw.readable
    /\ {E(<<"b">>, TRUE), E(<<"Z", ".", "m", "o", "v">>, FALSE),
        E(<<"a", ".", "m", "o", "v">>, FALSE), E(<<"B", ".", "M", "O", "V">>, FALSE),
        E(<<"c", ".", "t", "x", "t">>, FALSE)} \subseteq brw.entries
    /\ Len(brw.items) >= 4
    /\ brw.items[1].type = "directory"

====
